---- MODULE Spec2Model ----
(***************************************************************************)
(* A model of the pyth-cosmwasm contract: the governance instruction       *)
(* codec (governance.rs), the governance pipeline and the two price-feed   *)
(* queries (contract.rs) and the update parsers and trust gates            *)
(* (helpers.rs).                                                           *)
(*                                                                         *)
(* The Wormhole contract, the pythnet_sdk wire decoders and the attester   *)
(* SDK are dependencies: a blob handed to them is modelled by what they    *)
(* report about it (verdict and decoded contents).  The governance         *)
(* payload is decoded by this repository and is modelled byte by byte.     *)
(***************************************************************************)
EXTENDS Integers, Sequences, FiniteSets, TLC

VARIABLES config, pc, msg, result, old_config, history

vars == <<config, pc, msg, result, old_config, history>>

----------------------------------------------------------------------------
(* Bounds of the model *)

\* largest Wormhole sequence number an envelope carries
MaxSeq == 3
\* largest number of update blobs in one ParsePriceFeeds query
MaxUpdates == 2
\* largest number of requested identifiers in one ParsePriceFeeds query
MaxIds == 2
\* largest publish time / window bound
MaxTime == 2

----------------------------------------------------------------------------
(* Program constants *)

\* the emitter address of the wire format: [u8; 32]
EMITTER_LEN == 32
\* the action tag of SetDataSources
SET_DATA_SOURCES_TAG == 2
\* the largest data-source count the one-byte count field holds (u8::MAX)
U8_MAX == 255
\* ASCII "PTGM"
PYTH_GOVERNANCE_MAGIC == <<80, 84, 71, 77>>

\* GovernanceModule, by name
Executor == "Executor"
Target == "Target"

----------------------------------------------------------------------------
(* Data sources of the model: emitters are 32-byte strings.  EmA and EmB   *)
(* differ in the last byte only; chains 2 and 258 differ in the high byte  *)
(* only.                                                                   *)

EmA == [i \in 1..EMITTER_LEN |-> 10]
EmB == [i \in 1..EMITTER_LEN |-> IF i = EMITTER_LEN THEN 11 ELSE 10]

ChainIds == {2, 258}

PythDataSource(emitter, chain_id) == [emitter |-> emitter, chain_id |-> chain_id]

S1 == PythDataSource(EmA, 2)
S2 == PythDataSource(EmA, 258)
S3 == PythDataSource(EmB, 2)

Sources == {S1, S2, S3}

----------------------------------------------------------------------------
(* governance.rs: the governance instruction codec *)

GovernanceModule_to_u8(module) == IF module = Executor THEN 0 ELSE 1

\* [ok, module]
GovernanceModule_from_u8(x) ==
    CASE x = 0 -> [ok |-> TRUE, module |-> Executor]
      [] x = 1 -> [ok |-> TRUE, module |-> Target]
      [] OTHER -> [ok |-> FALSE, module |-> "none"]

\* mutant: the low byte is written first
write_u16_le(x) == <<x % 256, (x \div 256) % 256>>

write_u16_be(x) == <<(x \div 256) % 256, x % 256>>

read_u16_be(bytes, pos) == bytes[pos] * 256 + bytes[pos + 1]

GovernanceInstruction(module, data_sources, target_chain_id) ==
    [module |-> module,
     action |-> [type |-> "SetDataSources", data_sources |-> data_sources],
     target_chain_id |-> target_chain_id]

NoInstruction ==
    [module |-> "none",
     action |-> [type |-> "none", data_sources |-> <<>>],
     target_chain_id |-> 0]

DecodeErr(kind) == [err |-> kind, instruction |-> NoInstruction]

RECURSIVE serialize_data_sources(_)
\* [ok, bytes]: the loop of serialize over the data sources
serialize_data_sources(data_sources) ==
    IF data_sources = <<>> THEN [ok |-> TRUE, bytes |-> <<>>]
    ELSE LET data_source == Head(data_sources) IN
         IF Len(data_source.emitter) # EMITTER_LEN
         THEN [ok |-> FALSE, bytes |-> <<>>]
         ELSE LET rest == serialize_data_sources(Tail(data_sources)) IN
              IF ~rest.ok THEN rest
              ELSE [ok |-> TRUE,
                    bytes |-> write_u16_be(data_source.chain_id)
                              \o data_source.emitter \o rest.bytes]

\* GovernanceInstruction::serialize: [ok, bytes]
serialize(instruction) ==
    LET data_sources == instruction.action.data_sources IN
    IF Len(data_sources) > U8_MAX THEN [ok |-> FALSE, bytes |-> <<>>]
    ELSE LET body == serialize_data_sources(data_sources) IN
         IF ~body.ok THEN body
         ELSE [ok |-> TRUE,
               bytes |-> PYTH_GOVERNANCE_MAGIC
                         \o <<GovernanceModule_to_u8(instruction.module)>>
                         \o <<SET_DATA_SOURCES_TAG>>
                         \o write_u16_be(instruction.target_chain_id)
                         \o <<Len(data_sources)>>
                         \o body.bytes]

RECURSIVE read_data_sources(_, _, _)
\* the loop of deserialize: reads n data sources from position pos on;
\* [ok, data_sources, pos], pos the first unread position
read_data_sources(bytes, pos, n) ==
    IF n = 0 THEN [ok |-> TRUE, data_sources |-> <<>>, pos |-> pos]
    ELSE IF Len(bytes) < pos + 1
         THEN [ok |-> FALSE, data_sources |-> <<>>, pos |-> pos]
    ELSE IF Len(bytes) < pos + 1 + EMITTER_LEN
         THEN [ok |-> FALSE, data_sources |-> <<>>, pos |-> pos]
    ELSE LET chain_id == read_u16_be(bytes, pos)
             emitter_address == SubSeq(bytes, pos + 2, pos + 1 + EMITTER_LEN)
             rest == read_data_sources(bytes, pos + 2 + EMITTER_LEN, n - 1)
         IN  IF ~rest.ok THEN rest
             ELSE [ok |-> TRUE,
                   data_sources |->
                       <<PythDataSource(emitter_address, chain_id)>>
                       \o rest.data_sources,
                   pos |-> rest.pos]

\* mutant: a single byte left to read goes unnoticed
HasTrailingBytes_off_by_one(bytes, pos) == Len(bytes) > pos

\* the end-of-buffer check of deserialize: TRUE when a byte is left to read
HasTrailingBytes(bytes, pos) == Len(bytes) >= pos

\* mutant: the last byte of the magic is not compared
MagicMismatch_prefix(magic_vec) ==
    SubSeq(magic_vec, 1, 3) # SubSeq(PYTH_GOVERNANCE_MAGIC, 1, 3)

\* the test of the magic read from the first four bytes
MagicMismatch(magic_vec) == magic_vec # PYTH_GOVERNANCE_MAGIC

\* GovernanceInstruction::deserialize: [err, instruction], err = "" on success
deserialize(bytes) ==
    IF Len(bytes) < 4 THEN DecodeErr("UnexpectedEof")
    ELSE IF MagicMismatch(SubSeq(bytes, 1, 4))
         THEN DecodeErr("InvalidMagic")
    ELSE IF Len(bytes) < 5 THEN DecodeErr("UnexpectedEof")
    ELSE LET module == GovernanceModule_from_u8(bytes[5]) IN
    IF ~module.ok THEN DecodeErr("InvalidModule")
    ELSE IF Len(bytes) < 6 THEN DecodeErr("UnexpectedEof")
    ELSE IF Len(bytes) < 8 THEN DecodeErr("UnexpectedEof")
    ELSE LET action_type == bytes[6]
             target_chain_id == read_u16_be(bytes, 7)
    IN
    IF action_type = SET_DATA_SOURCES_TAG
    THEN IF Len(bytes) < 9 THEN DecodeErr("UnexpectedEof")
         ELSE LET num_data_sources == bytes[9]
                  read == read_data_sources(bytes, 10, num_data_sources)
              IN  IF ~read.ok THEN DecodeErr("UnexpectedEof")
                  ELSE IF HasTrailingBytes(bytes, read.pos)
                       THEN DecodeErr("TooLong")
                  ELSE [err |-> "",
                        instruction |->
                            GovernanceInstruction(module.module,
                                                  read.data_sources,
                                                  target_chain_id)]
    ELSE IF HasTrailingBytes(bytes, 9) THEN DecodeErr("TooLong")
         ELSE DecodeErr("UnknownAction")

----------------------------------------------------------------------------
(* helpers.rs: the authenticity oracle and the trust gates *)

\* What the Wormhole contract answers for a blob: the blob carries its
\* envelope, and `authentic` is the contract's verdict on its signatures.
\* [ok, vaa]
parse_and_verify_vaa(data) ==
    IF data.authentic THEN [ok |-> TRUE, vaa |-> data.vaa]
    ELSE [ok |-> FALSE, vaa |-> data.vaa]

VaaDataSource(vaa) == PythDataSource(vaa.emitter_address, vaa.emitter_chain)

\* mutant: the emitter address alone is compared, the chain id is ignored
verify_vaa_from_data_source_emitter_only(state, vaa) ==
    \E ds \in state.data_sources : ds.emitter = vaa.emitter_address

\* TRUE when the check passes
verify_vaa_from_data_source(state, vaa) ==
    VaaDataSource(vaa) \in state.data_sources

\* mutant: a price data source is accepted as a governance source too
verify_vaa_from_governance_source_or_data_source(state, vaa) ==
    \/ state.governance_source = VaaDataSource(vaa)
    \/ VaaDataSource(vaa) \in state.data_sources

\* TRUE when the check passes
verify_vaa_from_governance_source(state, vaa) ==
    state.governance_source = VaaDataSource(vaa)

----------------------------------------------------------------------------
(* contract.rs: execute_governance_instruction *)

NoResponse == [action |-> "", new_data_sources |-> <<>>]

SeqToSet(s) == {s[i] : i \in 1..Len(s)}

\* mutant: the stored sequence number itself is accepted again
IsOldGovernanceMessage_strict(vaa, cfg) ==
    vaa.sequence < cfg.governance_sequence_number

\* the replay check: a sequence number at or below the stored one is old
IsOldGovernanceMessage(vaa, cfg) ==
    vaa.sequence <= cfg.governance_sequence_number

\* mutant: the sequence number of the envelope is not stored
StageSequence_keep(cfg, vaa) == cfg

\* mutant: the sequence number advances by one, whatever the envelope's is
StageSequence_increment(cfg, vaa) ==
    [cfg EXCEPT !.governance_sequence_number = @ + 1]

\* the staged update of the sequence number
StageSequence(cfg, vaa) ==
    [cfg EXCEPT !.governance_sequence_number = vaa.sequence]

\* mutant: no wildcard, chain id 0 is a chain like any other
IsWrongChain_no_wildcard(instruction, cfg) ==
    instruction.target_chain_id # cfg.chain_id

\* the instruction is for another chain
IsWrongChain(instruction, cfg) ==
    /\ instruction.target_chain_id # cfg.chain_id
    /\ instruction.target_chain_id # 0

\* mutant: the module is not looked at
IsWrongModule_never(instruction) == FALSE

\* the instruction is for another kind of contract
IsWrongModule(instruction) == instruction.module # Target

\* mutant: the stored set is left as it was
ApplyAction_keep(updated_config, action) == updated_config

\* mutant: the listed sources are added to the set
ApplyAction_add(updated_config, action) ==
    [updated_config EXCEPT
        !.data_sources = @ \cup SeqToSet(action.data_sources)]

\* the match on instruction.action: the updated configuration
ApplyAction(updated_config, action) ==
    [updated_config EXCEPT !.data_sources = SeqToSet(action.data_sources)]

ActionResponse(action) ==
    [action |-> "set_data_sources", new_data_sources |-> action.data_sources]

\* mutant: the staged configuration is saved before the error is returned
Reject_saving_staged(cfg, updated_config, e) ==
    [err |-> e, config |-> updated_config, response |-> NoResponse]

\* an early return with an error: CONFIG.save is not reached, the stored
\* configuration stays cfg and the staged updated_config is dropped
Reject(cfg, updated_config, e) ==
    [err |-> e, config |-> cfg, response |-> NoResponse]

\* CONFIG.save(updated_config) and Ok(response)
SaveAndRespond(updated_config, response) ==
    [err |-> "", config |-> updated_config, response |-> response]

\* [err, config, response]: the outcome of the call and the stored
\* configuration after it
execute_governance_instruction(cfg, data) ==
    LET verified == parse_and_verify_vaa(data)
        vaa == verified.vaa
    IN
    IF ~verified.ok THEN Reject(cfg, cfg, "StdError")
    ELSE IF ~verify_vaa_from_governance_source(cfg, vaa)
         THEN Reject(cfg, cfg, "InvalidUpdateEmitter")
    ELSE IF IsOldGovernanceMessage(vaa, cfg)
         THEN Reject(cfg, cfg, "OldGovernanceMessage")
    ELSE LET updated_config == StageSequence(cfg, vaa)
             decoded == deserialize(vaa.payload)
             instruction == decoded.instruction
         IN
         IF decoded.err # ""
         THEN Reject(cfg, updated_config, "InvalidGovernancePayload")
         ELSE IF IsWrongChain(instruction, cfg)
              THEN Reject(cfg, updated_config, "InvalidGovernancePayload")
         ELSE IF IsWrongModule(instruction)
              THEN Reject(cfg, updated_config, "InvalidGovernancePayload")
         ELSE SaveAndRespond(ApplyAction(updated_config, instruction.action),
                             ActionResponse(instruction.action))

----------------------------------------------------------------------------
(* helpers.rs: the update parsers *)

Price(price, conf, expo, publish_time) ==
    [price |-> price, conf |-> conf, expo |-> expo,
     publish_time |-> publish_time]

\* PriceFeed::new(id, price, ema_price)
PriceFeed(id, price, ema_price) ==
    [id |-> id, price |-> price, ema_price |-> ema_price]

\* Price::default()
DefaultPrice == Price(0, 0, 0, 0)

ParseErr(e) == [err |-> e, feeds |-> <<>>]
ParseOk(feeds) == [err |-> "", feeds |-> feeds]

\* Keccak160 Merkle tree of pythnet_sdk, hashes kept symbolic: a leaf hash
\* commits to one message, a node hash to its two children in either order
hash_leaf(message) == [kind |-> "leaf", of |-> {message}]
hash_node(l, r) == [kind |-> "node", of |-> {l, r}]

RECURSIVE merkle_fold(_, _)
merkle_fold(current, proof) ==
    IF proof = <<>> THEN current
    ELSE merkle_fold(hash_node(current, Head(proof)), Tail(proof))

\* root.check(update.proof, &message_vec)
merkle_check(root, proof, message) ==
    merkle_fold(hash_leaf(message), proof) = root

\* the PriceFeed built from a Message::PriceFeedMessage
price_feed_from_message(m) ==
    PriceFeed(m.feed_id,
              Price(m.price, m.conf, m.exponent, m.publish_time),
              Price(m.ema_price, m.ema_conf, m.exponent, m.publish_time))

\* one turn of the loop over the updates: the proof check, the decoding of
\* the message and the match on its type; [err, feeds]
accumulator_item(root, update) ==
    IF ~merkle_check(root, update.proof, update.message)
    THEN ParseErr("Invalid merkly proof")
    ELSE IF update.message.type = "Invalid"
         THEN ParseErr("Invalid accumulator message")
    ELSE IF update.message.type = "PriceFeedMessage"
         THEN ParseOk(<<price_feed_from_message(update.message)>>)
    ELSE ParseErr("Invalid accumulator message type")

\* mutant: an item that fails is skipped and the loop goes on
accumulator_step_skipping(feeds, item) ==
    IF item.err # "" THEN ParseOk(feeds)
    ELSE ParseOk(feeds \o item.feeds)

\* what the loop does with the feeds so far and the outcome of an item:
\* an error returns at once, a feed is pushed
accumulator_step(feeds, item) ==
    IF item.err # "" THEN ParseErr(item.err)
    ELSE ParseOk(feeds \o item.feeds)

RECURSIVE accumulator_loop(_, _, _)
\* the loop `for update in updates`, feeds being the feeds pushed so far
accumulator_loop(root, updates, feeds) ==
    IF updates = <<>> THEN ParseOk(feeds)
    ELSE LET step == accumulator_step(feeds,
                                      accumulator_item(root, Head(updates)))
         IN  IF step.err # "" THEN step
             ELSE accumulator_loop(root, Tail(updates), step.feeds)

parse_accumulator(cfg, data) ==
    IF ~data.well_formed THEN ParseErr("Invalid accumalator payload")
    ELSE LET verified == parse_and_verify_vaa(data)
             parsed_vaa == verified.vaa
         IN
         IF ~verified.ok THEN ParseErr("StdError")
         ELSE IF ~verify_vaa_from_data_source(cfg, parsed_vaa)
              THEN ParseErr("Invalid update emitter")
         ELSE IF parsed_vaa.payload.kind # "merkle"
              THEN ParseErr("Invalid wormhole message")
         ELSE accumulator_loop(parsed_vaa.payload.root, data.updates, <<>>)

\* mutant: the status is ignored and the live fields are always used
create_price_feed_from_price_attestation_live(a) ==
    PriceFeed(a.price_id,
              Price(a.price, a.conf, a.expo, a.publish_time),
              Price(a.ema_price, a.ema_conf, a.expo, a.publish_time))

create_price_feed_from_price_attestation(a) ==
    IF a.status = "Trading"
    THEN PriceFeed(a.price_id,
                   Price(a.price, a.conf, a.expo, a.publish_time),
                   Price(a.ema_price, a.ema_conf, a.expo, a.publish_time))
    ELSE PriceFeed(a.price_id,
                   Price(a.prev_price, a.prev_conf, a.expo,
                         a.prev_publish_time),
                   Price(a.ema_price, a.ema_conf, a.expo,
                         a.prev_publish_time))

parse_batch_attestation(cfg, data) ==
    LET verified == parse_and_verify_vaa(data)
        vaa == verified.vaa
    IN
    IF ~verified.ok THEN ParseErr("StdError")
    ELSE IF ~verify_vaa_from_data_source(cfg, vaa)
         THEN ParseErr("Invalid update emitter")
    ELSE IF vaa.payload.kind # "batch"
         THEN ParseErr("Invalid update payload")
    ELSE ParseOk([i \in 1..Len(vaa.payload.price_attestations) |->
                    create_price_feed_from_price_attestation(
                        vaa.payload.price_attestations[i])])

\* data.accumulator_magic: the first four bytes are the accumulator magic
parse_update(cfg, data) ==
    IF data.accumulator_magic THEN parse_accumulator(cfg, data)
    ELSE parse_batch_attestation(cfg, data)

----------------------------------------------------------------------------
(* contract.rs: the queries *)

NoFeed == PriceFeed(0, DefaultPrice, DefaultPrice)

\* mutant: the upper bound of the window is not tested
OutsideWindow_no_max(feed, min_publish_time, max_publish_time) ==
    feed.price.publish_time < min_publish_time

\* mutant: a feed published at a bound of the window is skipped too
OutsideWindow_exclusive(feed, min_publish_time, max_publish_time) ==
    \/ feed.price.publish_time <= min_publish_time
    \/ feed.price.publish_time >= max_publish_time

\* the window test of the multi-feed query: the feed is skipped
OutsideWindow(feed, min_publish_time, max_publish_time) ==
    \/ feed.price.publish_time < min_publish_time
    \/ feed.price.publish_time > max_publish_time

RECURSIVE first_match(_, _, _, _)
\* the loop `for feed in feeds.as_slice()` for one result: the first feed
\* inside the window with the identifier; [some, feed]
first_match(feeds, id, min_publish_time, max_publish_time) ==
    IF feeds = <<>> THEN [some |-> FALSE, feed |-> NoFeed]
    ELSE IF OutsideWindow(Head(feeds), min_publish_time, max_publish_time)
         THEN first_match(Tail(feeds), id, min_publish_time, max_publish_time)
    ELSE IF id = Head(feeds).id
         THEN [some |-> TRUE, feed |-> Head(feeds)]
    ELSE first_match(Tail(feeds), id, min_publish_time, max_publish_time)

RECURSIVE match_results(_, _, _, _, _, _)
\* the loop `for result in results.as_mut_slice()` from index i on;
\* [found_feeds, results]
match_results(results, i, found_feeds, feeds, min_publish_time, max_publish_time) ==
    IF i > Len(results)
    THEN [found_feeds |-> found_feeds, results |-> results]
    ELSE IF results[i].some
         THEN match_results(results, i + 1, found_feeds, feeds,
                            min_publish_time, max_publish_time)
    ELSE LET m == first_match(feeds, results[i].id, min_publish_time,
                              max_publish_time)
         IN  IF m.some
             THEN match_results(
                      [results EXCEPT ![i] = [id |-> results[i].id,
                                              some |-> TRUE,
                                              feed |-> m.feed]],
                      i + 1, found_feeds + 1, feeds,
                      min_publish_time, max_publish_time)
             ELSE match_results(results, i + 1, found_feeds, feeds,
                                min_publish_time, max_publish_time)

RECURSIVE scan_updates(_, _, _, _, _, _)
\* the loop `for datum in updates`; [err, found_feeds, results]
scan_updates(cfg, updates, results, found_feeds, min_publish_time, max_publish_time) ==
    IF updates = <<>>
    THEN [err |-> "", found_feeds |-> found_feeds, results |-> results]
    ELSE LET parsed == parse_update(cfg, Head(updates)) IN
         IF parsed.err # ""
         THEN [err |-> parsed.err, found_feeds |-> found_feeds,
               results |-> results]
         ELSE LET m == match_results(results, 1, found_feeds, parsed.feeds,
                                     min_publish_time, max_publish_time)
              IN  scan_updates(cfg, Tail(updates), m.results, m.found_feeds,
                               min_publish_time, max_publish_time)

\* the final test of the multi-feed query: some identifier is unmatched
IsIncomplete(found_feeds, price_feeds) == found_feeds # Len(price_feeds)

\* [err, price_feeds]
query_parse_price_feed_updates(cfg, updates, price_feeds, min_publish_time, max_publish_time) ==
    LET results == [i \in 1..Len(price_feeds) |->
                       [id |-> price_feeds[i], some |-> FALSE,
                        feed |-> NoFeed]]
        scan == scan_updates(cfg, updates, results, 0, min_publish_time,
                             max_publish_time)
    IN
    IF scan.err # "" THEN [err |-> scan.err, price_feeds |-> <<>>]
    ELSE IF IsIncomplete(scan.found_feeds, price_feeds)
         THEN [err |-> "Invalid update data", price_feeds |-> <<>>]
    ELSE IF \E i \in 1..Len(scan.results) : ~scan.results[i].some
         THEN [err |-> "panic: unwrap on None", price_feeds |-> <<>>]
    ELSE [err |-> "",
          price_feeds |-> [i \in 1..Len(scan.results) |->
                              scan.results[i].feed]]

\* mutant: the bounds of the window are inclusive, as in the other query
SingleMatch_inclusive(feed, price_feed, min_publish_time, max_publish_time) ==
    /\ feed.id = price_feed
    /\ feed.price.publish_time >= min_publish_time
    /\ feed.price.publish_time <= max_publish_time

\* the test of the single-feed query on a feed
SingleMatch(feed, price_feed, min_publish_time, max_publish_time) ==
    /\ feed.id = price_feed
    /\ feed.price.publish_time > min_publish_time
    /\ feed.price.publish_time < max_publish_time

\* [err, price]
query_parse_single_price_feed_update(cfg, update_data, price_feed, min_publish_time, max_publish_time) ==
    LET parsed == parse_update(cfg, update_data) IN
    IF parsed.err # "" THEN [err |-> parsed.err, price |-> DefaultPrice]
    ELSE IF parsed.feeds = <<>> THEN [err |-> "", price |-> DefaultPrice]
    ELSE IF SingleMatch(Head(parsed.feeds), price_feed, min_publish_time,
                        max_publish_time)
         THEN [err |-> "", price |-> Head(parsed.feeds).price]
    ELSE [err |-> "Price not found within range", price |-> DefaultPrice]

----------------------------------------------------------------------------
(* The calls the model makes *)

\* the data-source lists governance instructions carry: empty, one source,
\* two sources, one source listed twice
DataSourceLists == {<<>>, <<S1>>, <<S2, S3>>, <<S2, S2>>}

TargetChainIds == {0} \cup ChainIds

GovernanceInstructions ==
    {GovernanceInstruction(m, ds, t) :
        m \in {Executor, Target}, ds \in DataSourceLists, t \in TargetChainIds}

WellFormedPayloads == {serialize(x).bytes : x \in GovernanceInstructions}

SamplePayload == serialize(GovernanceInstruction(Target, <<S1>>, 0)).bytes

\* payloads deserialize rejects: too short for the magic, another magic,
\* an unknown module, an unknown action tag (alone and followed by a byte),
\* a trailing byte, a count larger than the sources that follow
MalformedPayloads ==
    { <<>>,
      <<80, 84, 71>>,
      [SamplePayload EXCEPT ![4] = 78],
      [SamplePayload EXCEPT ![5] = 2],
      <<80, 84, 71, 77, 1, 1, 0, 0>>,
      <<80, 84, 71, 77, 1, 1, 0, 0, 0>>,
      SamplePayload \o <<0>>,
      [SamplePayload EXCEPT ![9] = 2] }

GovernancePayloads == WellFormedPayloads \cup MalformedPayloads

\* the blobs submitted to ExecuteGovernanceInstruction
GovernanceBlobs ==
    {[authentic |-> a,
      vaa |-> [emitter_chain |-> src.chain_id,
               emitter_address |-> src.emitter,
               sequence |-> sq,
               payload |-> p]] :
        a \in BOOLEAN, src \in Sources, sq \in 0..MaxSeq,
        p \in GovernancePayloads}

\* price-feed identifiers and publish times of the model
FeedIds == {1, 2}
Times == 0..MaxTime

\* accumulator messages: a message as pythnet_sdk decodes it; "Invalid"
\* stands for bytes that decode to no message
Message(type, feed_id, price, publish_time) ==
    [type |-> type, feed_id |-> feed_id, price |-> price, conf |-> 1,
     exponent |-> -2, publish_time |-> publish_time,
     ema_price |-> price + 5, ema_conf |-> 2]

M1 == Message("PriceFeedMessage", 1, 100, 1)
M2 == Message("PriceFeedMessage", 2, 200, 1)
M3 == Message("PriceFeedMessage", 1, 101, 2)
MT == Message("TwapMessage", 2, 300, 1)
MX == Message("Invalid", 0, 0, 0)

Item(message, proof) == [message |-> message, proof |-> proof]

NoRoot == [kind |-> "none", of |-> {}]
R12 == hash_node(hash_leaf(M1), hash_leaf(M2))
R1T == hash_node(hash_leaf(M1), hash_leaf(MT))
R1X == hash_node(hash_leaf(M1), hash_leaf(MX))
R3 == hash_leaf(M3)

\* legacy attestation records
PriceAttestation(price_id, status, price, publish_time, prev_price, prev_publish_time) ==
    [price_id |-> price_id, status |-> status, price |-> price, conf |-> 1,
     expo |-> -2, ema_price |-> price + 5, ema_conf |-> 2,
     publish_time |-> publish_time, prev_price |-> prev_price,
     prev_conf |-> 3, prev_publish_time |-> prev_publish_time]

Att1 == PriceAttestation(1, "Trading", 100, 1, 90, 0)
Att2 == PriceAttestation(2, "Halted", 200, 2, 190, 1)
Att3 == PriceAttestation(1, "Trading", 101, 2, 100, 1)
Att4 == PriceAttestation(2, "Unknown", 201, 2, 200, 2)
Att5 == PriceAttestation(1, "Trading", 102, 2, 101, 1)

MerklePayload(root) ==
    [kind |-> "merkle", root |-> root, price_attestations |-> <<>>]
BatchPayload(price_attestations) ==
    [kind |-> "batch", root |-> NoRoot,
     price_attestations |-> price_attestations]
GarbagePayload == [kind |-> "garbage", root |-> NoRoot,
                   price_attestations |-> <<>>]

\* an update blob: its header, whether AccumulatorUpdateData decodes it,
\* the envelope it carries with the oracle's verdict, and its updates
UpdateBlob(accumulator_magic, well_formed, authentic, src, payload, updates) ==
    [accumulator_magic |-> accumulator_magic,
     well_formed |-> well_formed,
     authentic |-> authentic,
     vaa |-> [emitter_chain |-> src.chain_id,
              emitter_address |-> src.emitter,
              sequence |-> 0,
              payload |-> payload],
     updates |-> updates]

Accumulator(src, root, updates) ==
    UpdateBlob(TRUE, TRUE, TRUE, src, MerklePayload(root), updates)
Batch(src, price_attestations) ==
    UpdateBlob(FALSE, FALSE, TRUE, src, BatchPayload(price_attestations),
               <<>>)

Good12 == <<Item(M1, <<hash_leaf(M2)>>), Item(M2, <<hash_leaf(M1)>>)>>

AccumulatorBlobs ==
    { Accumulator(S1, R12, Good12),
      Accumulator(S1, R12,
                  <<Item(M2, <<hash_leaf(M1)>>), Item(M1, <<hash_leaf(M2)>>)>>),
      Accumulator(S1, R12, <<Item(M1, <<hash_leaf(M2)>>), Item(M2, <<>>)>>),
      Accumulator(S1, R12,
                  <<Item(M3, <<hash_leaf(M2)>>), Item(M2, <<hash_leaf(M1)>>)>>),
      Accumulator(S1, R1T,
                  <<Item(M1, <<hash_leaf(MT)>>), Item(MT, <<hash_leaf(M1)>>)>>),
      Accumulator(S1, R1X,
                  <<Item(MX, <<hash_leaf(M1)>>), Item(M1, <<hash_leaf(MX)>>)>>),
      Accumulator(S1, R3, <<Item(M3, <<>>)>>),
      Accumulator(S1, R3, <<Item(M3, <<>>), Item(M1, <<hash_leaf(M2)>>)>>),
      Accumulator(S1, R12, <<>>),
      Accumulator(S1, R12, <<Item(M2, <<hash_leaf(M1)>>)>>),
      Accumulator(S2, R12, Good12),
      Accumulator(S3, R12, Good12),
      UpdateBlob(TRUE, TRUE, FALSE, S1, MerklePayload(R12), Good12),
      UpdateBlob(TRUE, FALSE, TRUE, S1, MerklePayload(R12), Good12),
      UpdateBlob(TRUE, TRUE, TRUE, S1, GarbagePayload, Good12),
      UpdateBlob(TRUE, TRUE, TRUE, S1, BatchPayload(<<Att1>>), Good12) }

BatchBlobs ==
    { Batch(S1, <<>>),
      Batch(S1, <<Att1>>),
      Batch(S1, <<Att3>>),
      Batch(S1, <<Att1, Att2>>),
      Batch(S1, <<Att2, Att1>>),
      Batch(S1, <<Att1, Att3>>),
      Batch(S1, <<Att3, Att4>>),
      Batch(S2, <<Att1, Att2>>),
      Batch(S3, <<Att1, Att2>>),
      UpdateBlob(FALSE, FALSE, FALSE, S1, BatchPayload(<<Att1, Att2>>), <<>>),
      UpdateBlob(FALSE, FALSE, TRUE, S1, GarbagePayload, <<>>),
      UpdateBlob(FALSE, FALSE, TRUE, S1, MerklePayload(R12), Good12) }

\* the blobs submitted to ParseSinglePriceFeed
UpdateBlobs == AccumulatorBlobs \cup BatchBlobs

\* the blobs the lists submitted to ParsePriceFeeds are made of
ListBlobs ==
    { Accumulator(S1, R12, Good12),
      Batch(S2, <<Att4, Att1>>),
      Batch(S1, <<Att3, Att5>>),
      UpdateBlob(FALSE, FALSE, FALSE, S1, BatchPayload(<<Att1, Att2>>), <<>>) }

SeqsUpTo(S, n) == UNION {[1..k -> S] : k \in 0..n}

----------------------------------------------------------------------------
(* The state machine *)

NoMsg == [op |-> "none"]
NoResult == [err |-> ""]

\* instantiate: the message's fields are stored verbatim
instantiate(m) ==
    [wormhole_contract |-> m.wormhole_contract,
     data_sources |-> SeqToSet(m.data_sources),
     chain_id |-> m.chain_id,
     governance_source |-> m.governance_source,
     governance_source_index |-> m.governance_source_index,
     governance_sequence_number |-> m.governance_sequence_number]

InstantiateMsgs ==
    {[wormhole_contract |-> "wormhole",
      data_sources |-> ds,
      governance_source |-> g,
      governance_source_index |-> 0,
      governance_sequence_number |-> sq,
      chain_id |-> c] :
        ds \in {<<>>, <<S1>>, <<S1, S2, S1>>}, g \in {S1, S3},
        sq \in 0..1, c \in ChainIds}

\* no governance call has returned yet
NoCall == [err |-> "none", before |-> {}, data_sources |-> <<>>]

\* history records the governance calls: the sequence numbers of the
\* instructions applied so far, in the order of the calls, and the last
\* call (its error, the data sources stored before it, the data sources it
\* carried).  Only the specification of call sequences writes it.
NoHistory == [applied |-> <<>>, last |-> NoCall]

Init ==
    /\ \E m \in InstantiateMsgs : config = instantiate(m)
    /\ pc = "idle"
    /\ msg = NoMsg
    /\ result = NoResult
    /\ old_config = config
    /\ history = NoHistory

\* ExecuteMsg::ExecuteGovernanceInstruction { data }
ExecuteGovernanceInstruction ==
    /\ pc = "idle"
    /\ \E data \in GovernanceBlobs :
          LET r == execute_governance_instruction(config, data) IN
          /\ config' = r.config
          /\ msg' = [op |-> "execute", data |-> data]
          /\ result' = [err |-> r.err, response |-> r.response]
          /\ old_config' = config
          /\ pc' = "returned"
          /\ UNCHANGED history

\* the entry point hands the result to the caller; the next call may start
Return ==
    /\ pc = "returned"
    /\ pc' = "idle"
    /\ msg' = NoMsg
    /\ result' = NoResult
    /\ old_config' = config
    /\ UNCHANGED <<config, history>>

\* QueryMsg::ParsePriceFeeds
ParsePriceFeeds ==
    /\ pc = "idle"
    /\ \E update_data \in SeqsUpTo(ListBlobs, MaxUpdates),
          price_feed_ids \in SeqsUpTo(FeedIds, MaxIds),
          min_publish_time \in Times, max_publish_time \in Times :
          LET r == query_parse_price_feed_updates(
                       config, update_data, price_feed_ids,
                       min_publish_time, max_publish_time)
          IN
          /\ msg' = [op |-> "parse_price_feeds",
                     update_data |-> update_data,
                     price_feed_ids |-> price_feed_ids,
                     min_publish_time |-> min_publish_time,
                     max_publish_time |-> max_publish_time]
          /\ result' = r
          /\ old_config' = config
          /\ pc' = "returned"
          /\ UNCHANGED history
          /\ UNCHANGED config

\* mutant: the single-feed query drops the stored data sources
ParseSinglePriceFeed_writing ==
    /\ pc = "idle"
    /\ \E update_data \in UpdateBlobs, price_feed_id \in FeedIds,
          min_publish_time \in Times, max_publish_time \in Times :
          LET r == query_parse_single_price_feed_update(
                       config, update_data, price_feed_id,
                       min_publish_time, max_publish_time)
          IN
          /\ msg' = [op |-> "parse_single_price_feed",
                     update_data |-> update_data,
                     price_feed_id |-> price_feed_id,
                     min_publish_time |-> min_publish_time,
                     max_publish_time |-> max_publish_time]
          /\ result' = r
          /\ old_config' = config
          /\ pc' = "returned"
          /\ UNCHANGED history
          /\ config' = [config EXCEPT !.data_sources = {}]

\* QueryMsg::ParseSinglePriceFeed
ParseSinglePriceFeed ==
    /\ pc = "idle"
    /\ \E update_data \in UpdateBlobs, price_feed_id \in FeedIds,
          min_publish_time \in Times, max_publish_time \in Times :
          LET r == query_parse_single_price_feed_update(
                       config, update_data, price_feed_id,
                       min_publish_time, max_publish_time)
          IN
          /\ msg' = [op |-> "parse_single_price_feed",
                     update_data |-> update_data,
                     price_feed_id |-> price_feed_id,
                     min_publish_time |-> min_publish_time,
                     max_publish_time |-> max_publish_time]
          /\ result' = r
          /\ old_config' = config
          /\ pc' = "returned"
          /\ UNCHANGED history
          /\ UNCHANGED config

Next ==
    \/ ExecuteGovernanceInstruction
    \/ ParsePriceFeeds
    \/ ParseSinglePriceFeed
    \/ Return

Spec == Init /\ [][Next]_vars

----------------------------------------------------------------------------
(* The codec on its own: instructions are serialized and the bytes decoded *)
(* again, byte strings are decoded, and an accepted byte string is decoded *)
(* once more with a byte appended.                                         *)

\* the longest data-source list of an instruction to serialize (but for
\* the one list that overflows the count byte)
MaxSources == 2

\* emitters of 32 bytes, of 31 and of 33 bytes
CodecEmitters == {EmA, EmB, SubSeq(EmA, 1, EMITTER_LEN - 1), EmA \o <<10>>}

CodecSources ==
    {PythDataSource(e, c) : e \in CodecEmitters, c \in ChainIds}

\* one more data source than the count byte can say
TooManySources == [i \in 1..(U8_MAX + 1) |-> S1]

CodecInstructions ==
    {GovernanceInstruction(m, ds, t) :
        m \in {Executor, Target},
        ds \in SeqsUpTo(CodecSources, MaxSources) \cup {TooManySources},
        t \in {0, 258}}

\* "PTGM", the magic with its last and with its first byte changed, zeroes,
\* and the magic of a batch attestation, "P2WH"
CodecMagics ==
    { PYTH_GOVERNANCE_MAGIC, <<80, 84, 71, 78>>, <<81, 84, 71, 77>>,
      <<0, 0, 0, 0>>, <<80, 50, 87, 72>> }

\* what follows the 8-byte header: nothing, an empty list, a list of one
\* source, two bytes, a count with no source
CodecPayloads ==
    { <<>>, <<0>>, <<1>> \o write_u16_be(258) \o EmB, <<0, 0>>, <<1>> }

\* byte strings to decode: every header over the sample fields followed by
\* every sample payload, and the proper prefixes of an instruction's header
CodecBlobs ==
    {magic \o <<module, action_type>> \o write_u16_be(258) \o payload :
        magic \in CodecMagics, module \in {0, 1, 2},
        action_type \in {0, 1, 2, 3, 255}, payload \in CodecPayloads}
    \cup {SubSeq(SamplePayload, 1, n) : n \in 0..8}
    \cup {<<80, 84, 70>>}

CodecInit ==
    /\ config = instantiate(CHOOSE m \in InstantiateMsgs : TRUE)
    /\ old_config = config
    /\ history = NoHistory
    /\ pc = "input"
    /\ result = NoResult
    /\ msg \in {[op |-> "instruction", instruction |-> x, bytes |-> <<>>] :
                    x \in CodecInstructions}
               \cup {[op |-> "bytes", instruction |-> NoInstruction,
                      bytes |-> b] : b \in CodecBlobs}

\* instruction.serialize()
Serialize ==
    /\ pc = "input" /\ msg.op = "instruction"
    /\ result' = serialize(msg.instruction)
    /\ pc' = "serialized"
    /\ UNCHANGED <<config, old_config, msg, history>>

\* GovernanceInstruction::deserialize of the bytes serialize returned
DeserializeSerialized ==
    /\ pc = "serialized" /\ result.ok
    /\ msg' = [msg EXCEPT !.bytes = result.bytes]
    /\ result' = deserialize(result.bytes)
    /\ pc' = "deserialized"
    /\ UNCHANGED <<config, old_config, history>>

\* GovernanceInstruction::deserialize of a byte string
Deserialize ==
    /\ pc = "input" /\ msg.op = "bytes"
    /\ result' = deserialize(msg.bytes)
    /\ pc' = "deserialized"
    /\ UNCHANGED <<config, old_config, msg, history>>

\* GovernanceInstruction::deserialize of an accepted byte string followed
\* by one more byte
DeserializeExtended ==
    /\ pc = "deserialized" /\ result.err = ""
    /\ \E c \in 0..U8_MAX :
          /\ msg' = [msg EXCEPT !.op = "extended", !.bytes = @ \o <<c>>]
          /\ result' = deserialize(msg.bytes \o <<c>>)
    /\ pc' = "deserialized"
    /\ UNCHANGED <<config, old_config, history>>

CodecNext ==
    \/ Serialize
    \/ DeserializeSerialized
    \/ Deserialize
    \/ DeserializeExtended

CodecSpec == CodecInit /\ [][CodecNext]_vars

----------------------------------------------------------------------------
(* Sequences of calls: governance calls and update parses alternate, and   *)
(* history records what the governance calls did.                          *)

\* payloads of the governance calls: every sample list of data sources for
\* this kind of contract, addressed to every chain or to chain 258, an
\* instruction for the other kind of contract, and an empty payload
SequencePayloads ==
    {serialize(GovernanceInstruction(Target, ds, t)).bytes :
        ds \in DataSourceLists, t \in {0, 258}}
    \cup {serialize(GovernanceInstruction(Executor, <<S1>>, 0)).bytes, <<>>}

SequenceBlobs ==
    {b \in GovernanceBlobs : b.vaa.payload \in SequencePayloads}

\* the data sources a payload lists, none when it does not decode
ListedDataSources(payload) ==
    LET decoded == deserialize(payload) IN
    IF decoded.err = "" THEN decoded.instruction.action.data_sources
    ELSE <<>>

\* ExecuteMsg::ExecuteGovernanceInstruction { data }, recorded in history
GovernCall ==
    /\ pc = "idle"
    /\ Len(history.applied) <= MaxSeq
    /\ \E data \in SequenceBlobs :
          LET r == execute_governance_instruction(config, data) IN
          /\ config' = r.config
          /\ msg' = [op |-> "execute", data |-> data]
          /\ result' = [err |-> r.err, response |-> r.response]
          /\ old_config' = config
          /\ pc' = "returned"
          /\ history' =
                [applied |-> IF r.err = ""
                             THEN Append(history.applied, data.vaa.sequence)
                             ELSE history.applied,
                 last |-> [err |-> r.err,
                           before |-> config.data_sources,
                           data_sources |->
                               ListedDataSources(data.vaa.payload)]]

\* parse_update(deps, env, update_data), the first step of both queries
ParseUpdateCall ==
    /\ pc = "idle"
    /\ \E update_data \in UpdateBlobs :
          /\ msg' = [op |-> "parse_update", update_data |-> update_data]
          /\ result' = parse_update(config, update_data)
    /\ old_config' = config
    /\ pc' = "returned"
    /\ UNCHANGED <<config, history>>

CallsNext ==
    \/ GovernCall
    \/ ParseUpdateCall
    \/ Return

CallsSpec == Init /\ [][CallsNext]_vars

----------------------------------------------------------------------------
(* The claims *)

\* a governance call has returned
Executed == pc = "returned" /\ msg.op = "execute"

\* the envelope of the governance call was accepted by the oracle
Verified == Executed /\ msg.data.authentic

FromGovernanceSource ==
    VaaDataSource(msg.data.vaa) = old_config.governance_source

Fresh == msg.data.vaa.sequence > old_config.governance_sequence_number

\* the payload of the governance call is the encoding of instruction x
Carries(x) == serialize(x).ok /\ serialize(x).bytes = msg.data.vaa.payload

\* C1: a governance call whose verified envelope has a sequence number at
\* or below the stored one is rejected and the configuration is unchanged,
\* whatever the payload and the source are.
C1_ReplayRejection ==
    (Verified /\ ~Fresh) => (result.err # "" /\ config = old_config)

\* an instruction that is acceptable in every other respect, carrying the
\* stored sequence number itself, is rejected as old
C1_Witness ==
    /\ Verified /\ FromGovernanceSource
    /\ msg.data.vaa.sequence = old_config.governance_sequence_number
    /\ \E x \in GovernanceInstructions :
          /\ Carries(x) /\ x.module = Target /\ x.target_chain_id = 0
          /\ SeqToSet(x.action.data_sources) # old_config.data_sources
    /\ result.err = "OldGovernanceMessage"

\* C2: the stored sequence number never decreases, and a successful
\* governance call leaves it strictly greater than before and equal to the
\* sequence number of the envelope applied.
C2_Monotonicity ==
    [][/\ config'.governance_sequence_number
            >= config.governance_sequence_number
       /\ (pc' = "returned" /\ msg'.op = "execute" /\ result'.err = "")
            => /\ config'.governance_sequence_number
                    > config.governance_sequence_number
               /\ config'.governance_sequence_number
                    = msg'.data.vaa.sequence]_vars

\* an instruction was applied whose sequence number skips one
C2_Witness ==
    /\ Executed /\ result.err = ""
    /\ msg.data.vaa.sequence = old_config.governance_sequence_number + 2
    /\ config.governance_sequence_number = msg.data.vaa.sequence

\* C3: a governance call that fails, for whatever reason, leaves the stored
\* configuration as it was; the staged sequence number is not persisted.
C3_GovernanceAtomicity ==
    (Executed /\ result.err # "") => config = old_config

\* a fresh instruction from the governance source fails after its sequence
\* number was staged: its payload does not decode
C3_Witness ==
    /\ Verified /\ FromGovernanceSource /\ Fresh
    /\ deserialize(msg.data.vaa.payload).err = "TooLong"
    /\ result.err = "InvalidGovernancePayload"

\* C4: a governance call changes the configuration only if the envelope's
\* (emitter_chain, emitter_address) is exactly the governance source; a
\* verified envelope from another source, a price data source included, is
\* rejected as from an invalid emitter and changes nothing.
C4_GovernanceTrustGate ==
    /\ (Executed /\ config # old_config) => FromGovernanceSource
    /\ (Verified /\ ~FromGovernanceSource)
          => (result.err = "InvalidUpdateEmitter" /\ config = old_config)

\* a fresh, well-formed instruction for this contract comes from a price
\* data source that has the chain id of the governance source and is
\* rejected
C4_Witness ==
    /\ Verified /\ ~FromGovernanceSource /\ Fresh
    /\ VaaDataSource(msg.data.vaa) \in old_config.data_sources
    /\ msg.data.vaa.emitter_chain = old_config.governance_source.chain_id
    /\ \E x \in GovernanceInstructions :
          /\ Carries(x) /\ x.module = Target /\ x.target_chain_id = 0
    /\ result.err = "InvalidUpdateEmitter"

\* the four fields no call writes
FrameFields(cfg) ==
    <<cfg.wormhole_contract, cfg.chain_id, cfg.governance_source,
      cfg.governance_source_index>>

\* C5: a successful governance call carrying SetDataSources leaves
\* data_sources equal to the set of the listed pairs, the sequence number
\* equal to the envelope's, and the other four fields unchanged; no step
\* ever changes those four fields.
C5_FullReplacementAndFrame ==
    [][/\ FrameFields(config') = FrameFields(config)
       /\ (pc' = "returned" /\ msg'.op = "execute" /\ result'.err = "")
            => \E x \in GovernanceInstructions :
                  /\ serialize(x).bytes = msg'.data.vaa.payload
                  /\ config' =
                        [config EXCEPT
                            !.data_sources = SeqToSet(x.action.data_sources),
                            !.governance_sequence_number =
                                msg'.data.vaa.sequence]]_vars

\* an applied instruction dropped a source of the previous set and listed
\* another one of it again
C5_Witness ==
    /\ Executed /\ result.err = ""
    /\ old_config.data_sources \ config.data_sources # {}
    /\ old_config.data_sources \cap config.data_sources # {}
    /\ config.data_sources \ old_config.data_sources # {}

\* the blobs of the query that has returned
QueriedBlobs ==
    IF msg.op = "parse_price_feeds" THEN SeqToSet(msg.update_data)
    ELSE IF msg.op = "parse_single_price_feed" THEN {msg.update_data}
    ELSE {}

Queried == pc = "returned" /\ QueriedBlobs # {}

\* the oracle accepts the blob's envelope and its source is a price data
\* source of the stored configuration
Trusted(b) ==
    b.authentic /\ VaaDataSource(b.vaa) \in config.data_sources

\* C6: parse_update returns feeds, on either path, only for a blob whose
\* envelope the oracle accepted and whose source is a member of the stored
\* data_sources; otherwise it fails and the query returns no feed.
C6_PriceTrustGate ==
    /\ \A b \in QueriedBlobs :
          /\ parse_update(config, b).err = "" => Trusted(b)
          /\ ~Trusted(b) => parse_update(config, b).feeds = <<>>
    /\ (Queried /\ \E b \in QueriedBlobs : ~Trusted(b))
          => /\ result.err # ""
             /\ msg.op = "parse_price_feeds" => result.price_feeds = <<>>
             /\ msg.op = "parse_single_price_feed"
                   => result.price = DefaultPrice

\* a query of two blobs: the accumulator blob passes the gate, the batch
\* blob is authentic, well-formed and from a source that is not a member,
\* and the query fails on it
C6_Witness ==
    /\ pc = "returned" /\ msg.op = "parse_price_feeds"
    /\ Len(msg.update_data) = 2
    /\ msg.update_data[1].accumulator_magic
    /\ parse_update(config, msg.update_data[1]).err = ""
    /\ ~msg.update_data[2].accumulator_magic
    /\ msg.update_data[2].authentic
    /\ msg.update_data[2].vaa.payload.kind = "batch"
    /\ ~Trusted(msg.update_data[2])
    /\ config.data_sources # {}
    /\ result.err = "Invalid update emitter"

\* the governance call carries an instruction, addressed to module m, that
\* passes the oracle, the trust gate and the replay check
Acceptable(x, m) ==
    /\ Verified /\ FromGovernanceSource /\ Fresh
    /\ Carries(x) /\ x.module = m

Applied ==
    /\ result.err = ""
    /\ config.governance_sequence_number = msg.data.vaa.sequence

\* C7: an otherwise acceptable instruction for module Target is applied
\* when its target chain id is 0 or the configured chain id, and rejected
\* with the configuration unchanged when it is any other chain id.
C7_ChainTargeting ==
    \A x \in GovernanceInstructions :
        Acceptable(x, Target) =>
            IF x.target_chain_id = 0
               \/ x.target_chain_id = old_config.chain_id
            THEN Applied /\ config.data_sources
                             = SeqToSet(x.action.data_sources)
            ELSE result.err # "" /\ config = old_config

\* a wildcard instruction is applied on the chain whose id has a high byte
C7_Witness ==
    /\ \E x \in GovernanceInstructions :
          Acceptable(x, Target) /\ x.target_chain_id = 0
    /\ old_config.chain_id = 258
    /\ Applied
    /\ config.data_sources # old_config.data_sources

\* C8: an authentic, authorized, fresh instruction whose module is
\* Executor is rejected, the configuration unchanged.
C8_ModuleGate ==
    \A x \in GovernanceInstructions :
        Acceptable(x, Executor) =>
            (result.err # "" /\ config = old_config)

\* an Executor instruction for this very chain, listing other sources than
\* the stored ones, is rejected
C8_Witness ==
    /\ \E x \in GovernanceInstructions :
          /\ Acceptable(x, Executor)
          /\ x.target_chain_id = old_config.chain_id
          /\ SeqToSet(x.action.data_sources) # old_config.data_sources
    /\ result.err = "InvalidGovernancePayload"
    /\ config = old_config

\* every item of the blob has a proof for its message against the root
\* of the blob's envelope, and a message that is a price feed
AllItemsGood(b) ==
    \A i \in 1..Len(b.updates) :
        /\ merkle_check(b.vaa.payload.root, b.updates[i].proof,
                        b.updates[i].message)
        /\ b.updates[i].message.type = "PriceFeedMessage"

\* C9: parse_accumulator returns feeds only if every item passes the Merkle
\* check against the root of the verified, authorized envelope and is a
\* price-feed message; then the feeds are the items' feeds in item order.
\* If any item fails, the call fails and returns no feed at all.
C9_AccumulatorAllOrNothing ==
    \A b \in QueriedBlobs :
        b.accumulator_magic =>
            LET r == parse_accumulator(config, b) IN
            /\ r.err = ""
                 => /\ Trusted(b) /\ b.vaa.payload.kind = "merkle"
                    /\ AllItemsGood(b)
                    /\ Len(r.feeds) = Len(b.updates)
                    /\ \A i \in 1..Len(b.updates) :
                          r.feeds[i]
                              = price_feed_from_message(b.updates[i].message)
            /\ ~AllItemsGood(b) => (r.err # "" /\ r.feeds = <<>>)
            /\ (pc = "returned" /\ r.err # "")
                 => /\ result.err # ""
                    /\ msg.op = "parse_price_feeds"
                          => result.price_feeds = <<>>
                    /\ msg.op = "parse_single_price_feed"
                          => result.err = r.err /\ result.price = DefaultPrice

\* a trusted accumulator blob whose first item is a good feed, the one the
\* query asks for, and whose second item fails its proof: the query fails
C9_Witness ==
    /\ pc = "returned" /\ msg.op = "parse_single_price_feed"
    /\ msg.update_data.accumulator_magic
    /\ Trusted(msg.update_data)
    /\ Len(msg.update_data.updates) = 2
    /\ merkle_check(msg.update_data.vaa.payload.root,
                    msg.update_data.updates[1].proof,
                    msg.update_data.updates[1].message)
    /\ msg.update_data.updates[1].message.type = "PriceFeedMessage"
    /\ msg.update_data.updates[1].message.feed_id = msg.price_feed_id
    /\ msg.min_publish_time < msg.update_data.updates[1].message.publish_time
    /\ msg.max_publish_time > msg.update_data.updates[1].message.publish_time
    /\ ~merkle_check(msg.update_data.vaa.payload.root,
                     msg.update_data.updates[2].proof,
                     msg.update_data.updates[2].message)
    /\ result.err = "Invalid merkly proof"

\* a ParsePriceFeeds query has returned
MultiReturned == pc = "returned" /\ msg.op = "parse_price_feeds"

\* the publish time of the feed is inside the window of the query
InWindow(feed) ==
    /\ msg.min_publish_time <= feed.price.publish_time
    /\ feed.price.publish_time <= msg.max_publish_time

\* some blob of the query parses and holds an in-window feed for id
HasInWindowFeed(id) ==
    \E k \in 1..Len(msg.update_data) :
        LET r == parse_update(config, msg.update_data[k]) IN
        /\ r.err = ""
        /\ \E j \in 1..Len(r.feeds) :
              r.feeds[j].id = id /\ InWindow(r.feeds[j])

AllRequestedPresent ==
    \A i \in 1..Len(msg.price_feed_ids) :
        HasInWindowFeed(msg.price_feed_ids[i])

AllBlobsParse ==
    \A k \in 1..Len(msg.update_data) :
        parse_update(config, msg.update_data[k]).err = ""

\* one feed per requested identifier, in the order requested
CompleteInOrder ==
    /\ result.err = ""
    /\ Len(result.price_feeds) = Len(msg.price_feed_ids)
    /\ \A i \in 1..Len(msg.price_feed_ids) :
          /\ result.price_feeds[i].id = msg.price_feed_ids[i]
          /\ InWindow(result.price_feeds[i])

NothingReturned == result.err # "" /\ result.price_feeds = <<>>

\* C10 as stated, for a query that requests at least one identifier: the
\* query returns one feed per requested identifier, in order, whenever the
\* blobs hold an in-window feed for each of them, and fails otherwise.
C10_AsStated ==
    (MultiReturned /\ msg.price_feed_ids # <<>>) =>
        IF AllRequestedPresent THEN CompleteInOrder ELSE NothingReturned

\* C10 (amended): the query returns one feed per requested identifier, in
\* the order requested, whenever every blob parses and the blobs hold an
\* in-window feed for each requested identifier; it fails and returns no
\* feed when a blob does not parse or a requested identifier has no
\* in-window feed in any blob.
C10_MultiFeedCompleteness ==
    MultiReturned =>
        IF AllBlobsParse /\ AllRequestedPresent
        THEN CompleteInOrder
        ELSE NothingReturned

\* two different identifiers are asked for and served, in the order
\* requested, from two blobs neither of which serves both
C10_Witness ==
    /\ MultiReturned /\ result.err = ""
    /\ Len(msg.price_feed_ids) = 2
    /\ msg.price_feed_ids[1] # msg.price_feed_ids[2]
    /\ Len(msg.update_data) = 2
    /\ \A k \in 1..2 :
          \E i \in 1..2 :
              \A j \in 1..Len(parse_update(config, msg.update_data[k]).feeds) :
                  LET f == parse_update(config, msg.update_data[k]).feeds[j]
                  IN  ~(f.id = msg.price_feed_ids[i] /\ InWindow(f))

RECURSIVE DecodedFeeds(_)
\* the feeds of the blobs of a list, in blob order and then decode order
DecodedFeeds(update_data) ==
    IF update_data = <<>> THEN <<>>
    ELSE parse_update(config, Head(update_data)).feeds
         \o DecodedFeeds(Tail(update_data))

\* the positions of the decoded feeds that have identifier id and a publish
\* time inside the inclusive window of the query
Candidates(feeds, id) ==
    {j \in 1..Len(feeds) : feeds[j].id = id /\ InWindow(feeds[j])}

\* C11: the feed the multi-feed query returns for a requested identifier is
\* the first one, in blob order and then decode order, that has the
\* identifier and min_publish_time <= t <= max_publish_time; feeds outside
\* the window are skipped and a later match never replaces it.
C11_MultiFeedFirstMatch ==
    (MultiReturned /\ result.err = "") =>
        LET feeds == DecodedFeeds(msg.update_data) IN
        \A i \in 1..Len(msg.price_feed_ids) :
            LET c == Candidates(feeds, msg.price_feed_ids[i]) IN
            /\ c # {}
            /\ \E j \in c :
                  /\ \A k \in c : j <= k
                  /\ result.price_feeds[i] = feeds[j]

\* the returned feed was published at the upper bound of the window, a
\* later feed with the same identifier and another price is inside the
\* window too, and an earlier one was skipped as outside of it
C11_Witness ==
    /\ MultiReturned /\ result.err = ""
    /\ Len(msg.price_feed_ids) = 1
    /\ LET feeds == DecodedFeeds(msg.update_data)
           c == Candidates(feeds, msg.price_feed_ids[1])
       IN  /\ \E j \in c, k \in c :
                 /\ j < k /\ feeds[j] # feeds[k]
                 /\ result.price_feeds[1] = feeds[j]
                 /\ feeds[j].price.publish_time = msg.max_publish_time
           /\ \E h \in 1..Len(feeds) :
                 /\ feeds[h].id = msg.price_feed_ids[1]
                 /\ h \notin c
                 /\ \A j \in c : h < j

\* a ParseSinglePriceFeed query has returned
SingleReturned == pc = "returned" /\ msg.op = "parse_single_price_feed"

\* the feeds the blob of the single-feed query decodes to
SingleFeeds == parse_update(config, msg.update_data).feeds

StrictlyInside(feed) ==
    /\ msg.min_publish_time < feed.price.publish_time
    /\ feed.price.publish_time < msg.max_publish_time

\* C12: when the first decoded feed has the requested identifier and
\* min_publish_time < t < max_publish_time, the single-feed query returns
\* its current price; when the first decoded feed has another identifier or
\* is outside the window (t = min and t = max included), the query fails
\* at once, whatever the later feeds are.
C12_SingleFeedMode ==
    (SingleReturned /\ parse_update(config, msg.update_data).err = ""
        /\ SingleFeeds # <<>>) =>
        IF SingleFeeds[1].id = msg.price_feed_id
           /\ StrictlyInside(SingleFeeds[1])
        THEN result.err = "" /\ result.price = SingleFeeds[1].price
        ELSE result.err = "Price not found within range"

\* the first decoded feed has another identifier, a later feed has the
\* requested one and is strictly inside the window, and the query fails
C12_Witness ==
    /\ SingleReturned /\ parse_update(config, msg.update_data).err = ""
    /\ Len(SingleFeeds) = 2
    /\ SingleFeeds[1].id # msg.price_feed_id
    /\ SingleFeeds[2].id = msg.price_feed_id
    /\ StrictlyInside(SingleFeeds[2])
    /\ result.err = "Price not found within range"

\* ---- the codec claims, checked under CodecSpec ----

Serialized == pc = "serialized"

RoundTripped == pc = "deserialized" /\ msg.op = "instruction"

Decoded == pc = "deserialized" /\ msg.op = "bytes"

Extended == pc = "deserialized" /\ msg.op = "extended"

HasBadEmitter(x) ==
    \E i \in 1..Len(x.action.data_sources) :
        Len(x.action.data_sources[i].emitter) # 32

\* C13 as stated: serialize(x) fails if and only if some data source's
\* emitter is not exactly 32 bytes long, and whenever it succeeds
\* deserialize(serialize(x)) = x.
C13_AsStated ==
    /\ Serialized => (~result.ok <=> HasBadEmitter(msg.instruction))
    /\ RoundTripped => result.err = "" /\ result.instruction = msg.instruction

\* C13, amended: serialize(x) fails if and only if some data source's
\* emitter is not exactly 32 bytes long or x lists more than 255 data
\* sources, and whenever it succeeds deserialize(serialize(x)) = x.
C13_CodecRoundTrip ==
    /\ Serialized =>
          (~result.ok <=> \/ HasBadEmitter(msg.instruction)
                          \/ Len(msg.instruction.action.data_sources) > 255)
    /\ RoundTripped => result.err = "" /\ result.instruction = msg.instruction

\* an instruction of two different data sources, one on a chain whose id
\* needs both bytes, has been serialized and decoded to itself
C13_Witness ==
    /\ RoundTripped
    /\ Len(msg.instruction.action.data_sources) = 2
    /\ msg.instruction.action.data_sources[1] # msg.instruction.action.data_sources[2]
    /\ msg.instruction.action.data_sources[2].chain_id = 258
    /\ msg.bytes = serialize(msg.instruction).bytes
    /\ result.instruction = msg.instruction

\* C14: for every byte string b that deserialize accepts and every byte c,
\* deserialize(b followed by c) fails.
C14_WireExhaustiveness ==
    Extended =>
        /\ deserialize(SubSeq(msg.bytes, 1, Len(msg.bytes) - 1)).err = ""
        /\ result.err # ""

\* an accepted instruction that lists a data source was extended by a byte
\* and rejected as too long
C14_Witness ==
    /\ Extended
    /\ deserialize(SubSeq(msg.bytes, 1, Len(msg.bytes) - 1)).instruction.action.data_sources # <<>>
    /\ msg.bytes[Len(msg.bytes)] = 7
    /\ result.err = "TooLong"

HasMagic(bytes) == Len(bytes) >= 4 /\ SubSeq(bytes, 1, 4) = <<80, 84, 71, 77>>

\* C15: deserialize rejects every blob whose first 4 bytes are not "PTGM",
\* blobs shorter than 4 bytes included, with an outcome that depends on no
\* byte after the fourth: an end-of-input error for a blob shorter than 4
\* bytes and the invalid-magic error otherwise.
C15_MagicGate ==
    (Decoded /\ ~HasMagic(msg.bytes)) =>
        /\ result.instruction = NoInstruction
        /\ result.err = IF Len(msg.bytes) < 4 THEN "UnexpectedEof"
                                              ELSE "InvalidMagic"

\* a blob that differs from an accepted instruction in the last byte of
\* the magic only was rejected for its magic
C15_Witness ==
    /\ Decoded
    /\ Len(msg.bytes) > 8
    /\ SubSeq(msg.bytes, 1, 4) = <<80, 84, 71, 78>>
    /\ deserialize(<<80, 84, 71, 77>> \o SubSeq(msg.bytes, 5, Len(msg.bytes))).err = ""
    /\ result.err = "InvalidMagic"

\* C18: given a blob with correct magic and a recognized module byte whose
\* action tag is not 2, deserialize fails with the unknown-action-tag
\* error, for every choice of the bytes that follow the 8-byte header.
C18_UnknownActionTag ==
    ( /\ Decoded
      /\ HasMagic(msg.bytes)
      /\ Len(msg.bytes) >= 8
      /\ msg.bytes[5] \in {0, 1}
      /\ msg.bytes[6] # 2 ) => result.err = "UnknownAction"

\* ---- the legacy batch records ----

\* the batches of the query that has returned which parse_update accepts
QueriedBatches ==
    {b \in QueriedBlobs :
        b.vaa.payload.kind = "batch" /\ parse_update(config, b).err = ""}

\* the feed a record maps to, its moving average stamped with ema_time
\* when the status is not Trading
StatusFallback(a, ema_time) ==
    IF a.status = "Trading"
    THEN [id |-> a.price_id,
          price |-> [price |-> a.price, conf |-> a.conf, expo |-> a.expo,
                     publish_time |-> a.publish_time],
          ema_price |-> [price |-> a.ema_price, conf |-> a.ema_conf,
                         expo |-> a.expo, publish_time |-> a.publish_time]]
    ELSE [id |-> a.price_id,
          price |-> [price |-> a.prev_price, conf |-> a.prev_conf,
                     expo |-> a.expo, publish_time |-> a.prev_publish_time],
          ema_price |-> [price |-> a.ema_price, conf |-> a.ema_conf,
                         expo |-> a.expo, publish_time |-> ema_time]]

\* every feed decoded from an accepted batch of the query is the mapping of
\* the record at its position, and every feed a multi-feed query over
\* batches returned is the mapping of one of their records
MapsRecords(F(_)) ==
    /\ \A b \in QueriedBatches :
          LET records == b.vaa.payload.price_attestations
              feeds == parse_update(config, b).feeds
          IN /\ Len(feeds) = Len(records)
             /\ \A i \in 1..Len(records) : feeds[i] = F(records[i])
    /\ (MultiReturned /\ result.err = "" /\ QueriedBatches = QueriedBlobs) =>
          \A i \in 1..Len(result.price_feeds) :
              \E b \in QueriedBatches :
                  \E j \in 1..Len(b.vaa.payload.price_attestations) :
                      result.price_feeds[i] =
                          F(b.vaa.payload.price_attestations[j])

LiveStamped(a) == StatusFallback(a, a.publish_time)

PrevStamped(a) == StatusFallback(a, a.prev_publish_time)

\* C16 as stated: a record with a non-Trading status maps to a feed whose
\* current price is the previous price, confidence and publish time while
\* its moving-average fields, publish time included, are the live fields.
C16_AsStated == Queried => MapsRecords(LiveStamped)

\* C16, amended: a Trading record maps to a feed whose current price is the
\* live price, confidence and publish time and whose moving average is the
\* live moving-average price and confidence at the live publish time; a
\* record with any other status maps to a feed whose current price is the
\* previous price, confidence and publish time and whose moving average is
\* the live moving-average price and confidence at the previous publish
\* time; both prices carry the record's exponent and the id is the price id.
C16_StatusFallback == Queried => MapsRecords(PrevStamped)

\* a single-feed query returned the previous price of a halted record whose
\* previous publish time differs from its live one
C16_Witness ==
    /\ SingleReturned /\ result.err = ""
    /\ msg.update_data \in QueriedBatches
    /\ msg.update_data.vaa.payload.price_attestations # <<>>
    /\ LET a == msg.update_data.vaa.payload.price_attestations[1] IN
          /\ a.status # "Trading"
          /\ a.prev_publish_time # a.publish_time
          /\ a.prev_price # a.price
          /\ result.price.price = a.prev_price
          /\ result.price.publish_time = a.prev_publish_time

\* ---- the frame of the queries ----

IsQuery(m) == m.op \in {"parse_price_feeds", "parse_single_price_feed"}

\* C17: neither query, whether it succeeds or fails and whichever update
\* format it parses, changes any field of the stored configuration; a step
\* that changes the configuration is a call of
\* execute_governance_instruction.
C17_QueriesReadOnly ==
    [][ /\ (pc = "idle" /\ IsQuery(msg')) => config' = config
        /\ config' # config => (pc = "idle" /\ msg'.op = "execute") ]_vars

\* a query has succeeded on a configuration that governance had rewritten,
\* and the configuration is the one the query started from
C17_Witness ==
    /\ Queried /\ result.err = ""
    /\ config.governance_sequence_number >= 2
    /\ config.data_sources # {}
    /\ config = old_config

\* ---- the error kinds of the governance call ----

\* the check of execute_governance_instruction that rejects data under cfg
RejectedBy(cfg, data) ==
    LET decoded == deserialize(data.vaa.payload) IN
    IF ~data.authentic THEN "oracle"
    ELSE IF VaaDataSource(data.vaa) # cfg.governance_source THEN "source"
    ELSE IF data.vaa.sequence <= cfg.governance_sequence_number
         THEN "sequence"
    ELSE IF decoded.err # "" THEN "decode"
    ELSE IF /\ decoded.instruction.target_chain_id # cfg.chain_id
            /\ decoded.instruction.target_chain_id # 0 THEN "chain"
    ELSE IF decoded.instruction.module # Target THEN "module"
    ELSE "none"

NamedChecks == {"source", "sequence", "decode", "chain", "module"}

\* C19: the errors for a payload that fails to decode, an instruction
\* addressed to another chain and an instruction addressed to another
\* module are three distinguishable kinds, each also distinct from the
\* unauthorized-source and stale-sequence errors: a call rejected by one of
\* these checks returns an error that no call rejected by another of them
\* returns.
C19_DistinctErrorKinds ==
    (Executed /\ RejectedBy(old_config, msg.data) \in NamedChecks) =>
        \A data \in GovernanceBlobs :
            ( /\ RejectedBy(old_config, data) \in NamedChecks
              /\ RejectedBy(old_config, data) # RejectedBy(old_config, msg.data) )
            => execute_governance_instruction(old_config, data).err # result.err

\* ---- what a successful single-feed query returns ----

\* C20: whenever query_parse_single_price_feed_update returns successfully,
\* the returned price is the current price of a feed decoded from the
\* supplied update whose identifier equals the requested identifier and
\* whose publish time lies strictly between min_publish_time and
\* max_publish_time; an update that decodes to zero feeds makes the call
\* fail.
C20_SingleFeedSoundness ==
    (SingleReturned /\ result.err = "") =>
        \E i \in 1..Len(SingleFeeds) :
            /\ SingleFeeds[i].id = msg.price_feed_id
            /\ StrictlyInside(SingleFeeds[i])
            /\ result.price = SingleFeeds[i].price

\* ---- sequences of calls, checked under CallsSpec ----

ParsedUpdate == pc = "returned" /\ msg.op = "parse_update"

\* the configuration with the data sources replaced by the set ds
WithDataSources(ds) == [config EXCEPT !.data_sources = ds]

\* C21: after a successful SetDataSources instruction every later
\* parse_update call is gated by the new set only: an update whose source
\* is not in the new set is rejected, even when the source was authorized
\* before, and an update whose source is in the new set is not rejected for
\* its emitter, so that the outcome is the one the new set alone gives;
\* after a governance call that failed,
\* the outcome of the update call is the one the set stored before that
\* call gives.
C21_GovernanceTakesEffect ==
    (ParsedUpdate /\ history.last # NoCall) =>
        LET b == msg.update_data
            new == SeqToSet(history.last.data_sources)
        IN
        IF history.last.err = ""
        THEN /\ VaaDataSource(b.vaa) \notin new => result.err # ""
             /\ VaaDataSource(b.vaa) \in new =>
                    result.err # "Invalid update emitter"
             /\ result = parse_update(WithDataSources(new), b)
        ELSE result = parse_update(WithDataSources(history.last.before), b)

\* after an applied instruction, an update that the set stored before had
\* accepted is rejected because its source is not in the new set
C21_Witness ==
    /\ ParsedUpdate
    /\ history.last.err = ""
    /\ msg.update_data.authentic
    /\ VaaDataSource(msg.update_data.vaa) \in history.last.before
    /\ VaaDataSource(msg.update_data.vaa) \notin SeqToSet(history.last.data_sources)
    /\ parse_update(WithDataSources(history.last.before), msg.update_data).err = ""
    /\ result.err = "Invalid update emitter"

\* the governance call that has returned passed every check but the one on
\* the sequence number
OtherwiseValid ==
    /\ Verified
    /\ FromGovernanceSource
    /\ RejectedBy([old_config EXCEPT !.governance_sequence_number = -1], msg.data) = "none"

\* the sequence numbers applied before the call that has returned
AppliedBefore ==
    IF Executed /\ result.err = ""
    THEN SubSeq(history.applied, 1, Len(history.applied) - 1)
    ELSE history.applied

\* C22: an otherwise valid instruction with any sequence number strictly
\* greater than the stored one is accepted, stored + 1 or not; the sequence
\* numbers of the applied instructions are strictly increasing in the
\* order of the calls, so each is applied at most once; and an instruction
\* whose sequence number is not above one applied before is rejected.
C22_SequenceGaps ==
    /\ (Executed /\ OtherwiseValid /\ Fresh) =>
          /\ result.err = ""
          /\ history.applied # <<>>
          /\ history.applied[Len(history.applied)] = msg.data.vaa.sequence
    /\ \A i, j \in 1..Len(history.applied) :
          i < j => history.applied[i] < history.applied[j]
    /\ Executed =>
          \A i \in 1..Len(AppliedBefore) :
              msg.data.vaa.sequence <= AppliedBefore[i] =>
                  /\ result.err # ""
                  /\ config = old_config

\* instructions 1 and 3 were applied, 3 right after 1, and the skipped
\* instruction 2, otherwise valid, was then rejected as old
C22_Witness ==
    /\ Executed /\ OtherwiseValid
    /\ history.applied = <<1, 3>>
    /\ msg.data.vaa.sequence = 2
    /\ result.err = "OldGovernanceMessage"

====
